---- MODULE Spec2Model ----
(***************************************************************************)
(* Model of ui/tabs/branch.go of mergemate: the BranchTable tab, i.e. the  *)
(* branch table (flexTable), the target branch picker (branchesList), the  *)
(* key bindings, and the asynchronous createMergeRequest command whose     *)
(* result re-enters BranchTable.Update through the event loop.             *)
(***************************************************************************)
EXTENDS Integers, Sequences, FiniteSets, TLC

VARIABLES
    showMergeTargets,   \* BranchTable.showMergeTargets (TRUE = PickingTarget)
    keys,               \* BranchTable.keys: the enabled flag of every binding
    flexTable,          \* BranchTable.flexTable (bubble-table model)
    branchesList,       \* BranchTable.branchesList (bubbles list model)
    context,            \* *BranchTable.context (shared AppContext)
    requests,           \* the createMergeRequest commands issued so far
    filterCmds,         \* filterItems commands returned by the picker, not yet delivered
    loadCmds,           \* listUsersBranches commands issued and not yet delivered
    crashed,            \* a panic escaped BranchTable.Update
    last                \* what the last step did (event, command issued, widget reached)

vars == <<showMergeTargets, keys, flexTable, branchesList, context,
          requests, filterCmds, loadCmds, crashed, last>>

----------------------------------------------------------------------------
(* Bounds *)

MaxRequests == 1        \* createMergeRequest commands in flight
MaxBranches == 2        \* length of a fetched user branch list
MaxTargets == 3         \* length of a target branch list
MaxFilterLen == 1       \* characters typed into the picker's filter
MaxFilterCmds == 1      \* filterItems commands in flight
MaxTitleLen == 257      \* longest first line of a commit message (title policy)
MaxInFlight == 2        \* createMergeRequest commands in flight (concurrent requests)

----------------------------------------------------------------------------
(* Sequences helpers *)

Range(s) == {s[i] : i \in 1..Len(s)}

NoRepeat(s) == \A i, j \in 1..Len(s) : i # j => s[i] # s[j]

SeqsUpTo(S, n) == UNION {[1..k -> S] : k \in 0..n}

\* the sequence s repeated n times
Repeat(s, n) == [i \in 1..(n * Len(s)) |-> s[((i - 1) % Len(s)) + 1]]

Min(a, b) == IF a < b THEN a ELSE b
Max(a, b) == IF a > b THEN a ELSE b

----------------------------------------------------------------------------
(* Data: gitlab.Branch values supplied by the client *)

\* commit messages of the user's branches (sequences of characters)
MsgX == <<"f", "i", "x", "\n", "d">>
MsgY == <<"w", "i", "p">>

\* the user's branches (gitlab.Branch: Name, Commit.Message, Commit.AuthoredDate)
BranchX == [Name |-> "feature/x", Message |-> MsgX, AuthoredDate |-> 1]
BranchY == [Name |-> "feature/y", Message |-> MsgY, AuthoredDate |-> 2]
UserBranchPool == {BranchX, BranchY}

\* every list FetchBranchesWithPattern can return (names unique within a list)
BranchLists == {l \in SeqsUpTo(UserBranchPool, MaxBranches) : NoRepeat(l)}

TargetNames == {"main", "dev", "rel"}

\* the repository of the workflow runs: its default branch is main
TargetDev == [Name |-> "dev", Default |-> FALSE]
TargetMain == [Name |-> "main", Default |-> TRUE]

\* the characters of a branch name, as list.Item.FilterValue() exposes them
NameChars(n) ==
    CASE n = "main" -> <<"m", "a", "i", "n">>
      [] n = "dev" -> <<"d", "e", "v">>
      [] n = "rel" -> <<"r", "e", "l">>
      [] OTHER -> <<>>

\* the TargetBranches.Branches values over the given names (gitlab.Branch:
\* Name, Default): names unique, at most one default branch
TargetListsOver(names, n) ==
    {l \in SeqsUpTo([Name : names, Default : BOOLEAN], n) :
        /\ \A i, j \in 1..Len(l) : i # j => l[i].Name # l[j].Name
        /\ Cardinality({i \in 1..Len(l) : l[i].Default}) <= 1}

TargetLists == TargetListsOver(TargetNames, MaxTargets)

\* what the client returns in the workflow runs: the first branches of the
\* repository of the workflow runs
WorkflowBranchLists ==
    {SubSeq(<<BranchX, BranchY>>, 1, n) : n \in 0..2}
WorkflowTargetLists ==
    {SubSeq(<<TargetDev, TargetMain>>, 1, n) : n \in 0..2}

\* context.FavouriteBranches
FavouriteBranches == <<"main", "dev">>

\* context.Styles.Tabs.Content.GetHorizontalFrameSize()
HorizontalFrameSize == 2

\* values of context.WindowWidth
WindowWidths == {12, 92}

\* context.TablePageSize and context.TableContentHeight
TablePageSize == 1
TableContentHeight == 20

----------------------------------------------------------------------------
(* Keys.  A tea.KeyMsg is identified by the key pressed.  The keys each     *)
(* binding of keys.BranchKeyMap listens to are set by keys.BranchHelp.      *)

KeyMergeAutomatically == "m"
KeyCloseTargetBranchesList == "esc"
KeySelectTargetBranch == "enter"
KeyMergeFavourite == <<"1", "2">>

\* the keys the widgets' own key maps listen to
KeyDown == "down"
KeyFilter == "/"

\* the characters the user types into the picker's filter input
FilterChars == {"m"}

Keys == {KeyMergeAutomatically, KeyCloseTargetBranchesList, KeySelectTargetBranch,
         KeyDown, KeyFilter} \cup Range(KeyMergeFavourite)

\* keys.BranchHelp(context.FavouriteBranches): the bindings as constructed.
\* key.NewBinding enables a binding unless told otherwise; whether the two
\* picker bindings start disabled is left open.
BranchHelp ==
    {[MergeAutomatically |-> TRUE,
      CloseTargetBranchesList |-> picker,
      SelectTargetBranch |-> picker,
      MergeFavourite |-> [i \in 1..Len(FavouriteBranches) |-> TRUE]] : picker \in BOOLEAN}

\* key.Matches(msg, binding): the binding is enabled and listens to the key
Matches(msg, enabled, k) == msg.type = "KeyMsg" /\ enabled /\ msg.key = k

----------------------------------------------------------------------------
(* Messages handed to BranchTable.Update *)

NoMergeRequest == [Iid |-> 0, source |-> "", target |-> "", title |-> <<>>]

Msg(type) == [type |-> type, key |-> "", branches |-> <<>>, matches |-> <<>>,
              text |-> <<>>, mergeRequest |-> NoMergeRequest]

\* UserBranches{branches} and TargetBranches{Branches}
UserBranches(branches) == [Msg("UserBranches") EXCEPT !.branches = branches]
TargetBranches(branches) == [Msg("TargetBranches") EXCEPT !.branches = branches]

\* context.UpdatedContextMessage
UpdatedContextMessage == Msg("UpdatedContextMessage")

KeyMsg(k) == [Msg("KeyMsg") EXCEPT !.key = k]

\* list.FilterMatchesMsg
FilterMatchesMsg(items) == [Msg("FilterMatchesMsg") EXCEPT !.matches = items]

\* failed(message): the "merge request failed" notification
failed(text) == [Msg("MergeRequestFailed") EXCEPT !.text = text]

MergeRequestCreated(mr) == [Msg("MergeRequestCreated") EXCEPT !.mergeRequest = mr]

\* a command that returns nil: bubbletea delivers nothing
NilMsg == Msg("nil")

----------------------------------------------------------------------------
(* flexTable: the bubble-table model, as far as BranchTable uses it *)

NewFlexTable(pageSize) ==
    [rows |-> <<>>, rowCursorIndex |-> 0, currentPage |-> 0,
     targetWidth |-> 0, pageSize |-> pageSize]

TableMaxPages(t) ==
    IF t.pageSize = 0 \/ Len(t.rows) = 0 THEN 1
    ELSE (Len(t.rows) - 1) \div t.pageSize + 1

ExpectedPage(t, idx) == IF t.pageSize = 0 THEN 0 ELSE idx \div t.pageSize

\* table.Model.WithRows: replaces the rows, keeps the cursor and page in range
WithRows(t, rows) ==
    LET c1 == IF t.rowCursorIndex >= Len(rows) THEN Len(rows) - 1 ELSE t.rowCursorIndex
        c2 == IF c1 < 0 THEN 0 ELSE c1
        t1 == [t EXCEPT !.rows = rows, !.rowCursorIndex = c2]
        last1 == TableMaxPages(t1) - 1
    IN  IF t1.pageSize # 0 /\ TableMaxPages(t1) <= t1.currentPage
        THEN [t1 EXCEPT !.currentPage = last1, !.rowCursorIndex = last1 * t1.pageSize]
        ELSE t1

\* table.Model.PageFirst
PageFirst(t) == [t EXCEPT !.currentPage = 0, !.rowCursorIndex = 0]

WithTargetWidth(t, w) == [t EXCEPT !.targetWidth = w]

\* table.Model.WithPageSize: the page may not lie beyond the last one
WithPageSize(t, n) ==
    LET t1 == [t EXCEPT !.pageSize = n]
        last1 == TableMaxPages(t1) - 1
    IN  IF t1.currentPage > last1
        THEN [t1 EXCEPT !.currentPage = last1, !.rowCursorIndex = last1 * n]
        ELSE t1

\* table.Model.HighlightedRow returns an empty Row (nil Data) for an empty
\* table; the type assertion on its metadata then panics
HasHighlightedRow(t) == Len(t.rows) > 0
HighlightedRow(t) == t.rows[t.rowCursorIndex + 1]

\* table.Model.Update: the focused table moves its highlight on its own keys
TableUpdate(t, msg) ==
    IF msg.type # "KeyMsg" \/ Len(t.rows) = 0 THEN t
    ELSE IF msg.key = KeyDown THEN
        LET c == IF t.rowCursorIndex + 1 >= Len(t.rows) THEN 0 ELSE t.rowCursorIndex + 1
        IN  [t EXCEPT !.rowCursorIndex = c, !.currentPage = ExpectedPage(t, c)]
    ELSE t

----------------------------------------------------------------------------
(* branchesList: the bubbles list model, as far as BranchTable uses it *)

\* createList(): list.New([]list.Item{}, delegate, 0, 20)
createList ==
    [items |-> <<>>, filterState |-> "Unfiltered", filterValue |-> <<>>,
     filteredItems |-> <<>>, cursor |-> 0, width |-> 0, height |-> 20]

RECURSIVE IsSubsequence(_, _)
IsSubsequence(p, s) ==
    IF p = <<>> THEN TRUE
    ELSE IF s = <<>> THEN FALSE
    ELSE IF Head(p) = Head(s) THEN IsSubsequence(Tail(p), Tail(s))
    ELSE IsSubsequence(p, Tail(s))

RECURSIVE FilterNames(_, _)
FilterNames(term, names) ==
    IF names = <<>> THEN <<>>
    ELSE (IF IsSubsequence(term, NameChars(Head(names))) THEN <<Head(names)>> ELSE <<>>)
         \o FilterNames(term, Tail(names))

\* list.Model.VisibleItems
VisibleItems(l) == IF l.filterState # "Unfiltered" THEN l.filteredItems ELSE l.items

\* list.Model.SelectedItem returns nil when the cursor is on no visible item;
\* the type assertion on it then panics
HasSelectedItem(l) == l.cursor < Len(VisibleItems(l))
SelectedItem(l) == VisibleItems(l)[l.cursor + 1]

\* the message the command filterItems(m) returns: the matches of the filter
\* text among the items of the model the command captured
filterItems(l) ==
    IF l.filterValue = <<>> \/ l.filterState = "Unfiltered" THEN l.items
    ELSE FilterNames(l.filterValue, l.items)

\* list.Model.SetItems; the command it returns is dropped by the caller
SetItems(l, items) ==
    [l EXCEPT !.items = items,
              !.filteredItems = IF l.filterState # "Unfiltered" THEN <<>> ELSE @]

\* list.Model.ResetFilter (resetFiltering)
ResetFilter(l) ==
    IF l.filterState = "Unfiltered" THEN l
    ELSE [l EXCEPT !.filterState = "Unfiltered", !.filterValue = <<>>,
                   !.filteredItems = <<>>]

\* list.Model.ResetSelected: Select(0)
ResetSelected(l) == [l EXCEPT !.cursor = 0]

SetWidth(l, v) == [l EXCEPT !.width = v]
SetHeight(l, v) == [l EXCEPT !.height = v]

\* list.Model.CursorDown (all items on one page, no wrapping)
ListCursorDown(l) ==
    LET n == Len(VisibleItems(l))
        c == l.cursor + 1
    IN  [l EXCEPT !.cursor = IF c < n THEN c ELSE IF c > n THEN 0 ELSE n - 1]


\* list.Model.handleBrowsing
ListHandleBrowsing(l, msg) ==
    IF msg.type # "KeyMsg" THEN [model |-> l, cmds |-> <<>>]
    ELSE IF msg.key = KeyCloseTargetBranchesList /\ l.filterState = "FilterApplied"
        THEN [model |-> ResetFilter(l), cmds |-> <<>>]
    ELSE IF msg.key = KeyDown /\ Len(l.items) # 0
        THEN [model |-> ListCursorDown(l), cmds |-> <<>>]
    ELSE IF msg.key = KeyFilter /\ Len(l.items) # 0
        THEN [model |-> [l EXCEPT !.filteredItems =
                                     IF l.filterValue = <<>> THEN l.items ELSE @,
                                  !.cursor = 0,
                                  !.filterState = "Filtering"],
              cmds |-> <<>>]
    ELSE [model |-> l, cmds |-> <<>>]

\* list.Model.handleFiltering
ListHandleFiltering(l, msg) ==
    IF msg.type # "KeyMsg" THEN [model |-> l, cmds |-> <<>>]
    ELSE IF msg.key = KeyCloseTargetBranchesList
        THEN [model |-> ResetFilter(l), cmds |-> <<>>]
    ELSE IF msg.key = KeySelectTargetBranch /\ l.filterValue # <<>>
        THEN [model |-> IF Len(l.items) = 0 THEN l
                        ELSE IF Len(VisibleItems(l)) = 0 THEN ResetFilter(l)
                        ELSE [l EXCEPT !.filterState = "FilterApplied"],
              cmds |-> <<>>]
    ELSE IF msg.key \in FilterChars
        THEN LET l1 == [l EXCEPT !.filterValue = Append(@, msg.key)]
             IN  [model |-> l1, cmds |-> <<filterItems(l1)>>]
    ELSE [model |-> l, cmds |-> <<>>]

\* list.Model.Update: the new model and the commands it returns
ListUpdate(l, msg) ==
    IF msg.type = "FilterMatchesMsg"
        THEN [model |-> [l EXCEPT !.filteredItems = msg.matches], cmds |-> <<>>]
    ELSE IF l.filterState = "Filtering" THEN ListHandleFiltering(l, msg)
    ELSE ListHandleBrowsing(l, msg)

----------------------------------------------------------------------------
(* The createMergeRequest command *)

\* A Go string is a sequence of bytes.  A byte is written here as a string:
\* "\n" and the other one-letter strings are ASCII characters, "C3" "A9" are
\* the two bytes of the UTF-8 encoding of one character (e with acute accent).
Utf8Lead == "C3"
Utf8Continuation == "A9"

\* strings.IndexByte(title, '\n'): 0-based index of the first line break, -1 if none
IndexByte(title) ==
    LET breaks == {i \in 1..Len(title) : title[i] = "\n"}
    IN  IF breaks = {} THEN -1
        ELSE (CHOOSE i \in breaks : \A j \in breaks : i <= j) - 1

TitleLimit == 255
TitleCut == 250

\* shortenTitle
shortenTitle(title) ==
    LET idx == IndexByte(title)
        line == IF idx # -1 THEN SubSeq(title, 1, idx) ELSE title
    IN  IF Len(line) > TitleLimit
        THEN SubSeq(line, 1, TitleCut) \o <<".", ".", ".">>
        ELSE line

\* error values of the client: nil, or an error whose chain may hold
\* gitlab.MergeRequestAlreadyExists and/or a net.Error
NilErr == [nil |-> TRUE, exists |-> FALSE, net |-> FALSE]
Errors == {[nil |-> FALSE, exists |-> e, net |-> n] : e, n \in BOOLEAN}

\* Iid values the client assigns to a created merge request
Iids == {7}

\* what CreateMergeRequestNote answers: nil or an error
NoteErrors == {NilErr, [nil |-> FALSE, exists |-> FALSE, net |-> FALSE]}

ApiCall(op, source, target, title, iid) ==
    [op |-> op, source |-> source, target |-> target, title |-> title, iid |-> iid]

\* the tea.Cmd returned by createMergeRequest, before it has run
createMergeRequest(sourceBranch, targetBranch, title) ==
    [source |-> sourceBranch, target |-> targetBranch, title |-> title,
     pc |-> "issued", msg |-> NilMsg, calls |-> <<>>,
     err |-> NilErr, noteErr |-> NilErr]

\* RunCreateMergeRequest with the network class tested before "already exists"
RunCreateMergeRequest_NetFirst(cmd, iid, err, noteErr) ==
    LET title == shortenTitle(cmd.title)
        create == ApiCall("CreateMergeRequest", cmd.source, cmd.target, title, 0)
        note == ApiCall("CreateMergeRequestNote", "", "", <<>>, iid)
        mergeRequest == [Iid |-> iid, source |-> cmd.source,
                         target |-> cmd.target, title |-> title]
        done(msg, calls, nerr) ==
            [cmd EXCEPT !.pc = "returned", !.msg = msg, !.calls = calls,
                        !.err = err, !.noteErr = nerr]
    IN  IF ~err.nil /\ err.net
        THEN done(failed(<<"merge request creation failed, please check your network connection">>),
                  <<create>>, NilErr)
        ELSE IF ~err.nil /\ err.exists
        THEN done(failed(<<"merge request from branch ", cmd.source, " already exists">>),
                  <<create>>, NilErr)
        ELSE IF ~err.nil
        THEN done(failed(<<"unrecognized error when creating merge request, please check log file">>),
                  <<create>>, NilErr)
        ELSE IF ~noteErr.nil
        THEN done(NilMsg, <<create, note>>, noteErr)
        ELSE done(MergeRequestCreated(mergeRequest), <<create, note>>, noteErr)

\* RunCreateMergeRequest with the source branch read from the table when the
\* command runs instead of when it is issued
RunCreateMergeRequest_ReadsTableLate(cmd, iid, err, noteErr) ==
    LET source == IF HasHighlightedRow(flexTable)
                  THEN HighlightedRow(flexTable).branchName ELSE cmd.source
        title == shortenTitle(cmd.title)
        create == ApiCall("CreateMergeRequest", source, cmd.target, title, 0)
        note == ApiCall("CreateMergeRequestNote", "", "", <<>>, iid)
        mergeRequest == [Iid |-> iid, source |-> source,
                         target |-> cmd.target, title |-> title]
        done(msg, calls, nerr) ==
            [cmd EXCEPT !.pc = "returned", !.msg = msg, !.calls = calls,
                        !.err = err, !.noteErr = nerr]
    IN  IF ~err.nil /\ err.exists
        THEN done(failed(<<"merge request from branch ", source, " already exists">>),
                  <<create>>, NilErr)
        ELSE IF ~err.nil /\ err.net
        THEN done(failed(<<"merge request creation failed, please check your network connection">>),
                  <<create>>, NilErr)
        ELSE IF ~err.nil
        THEN done(failed(<<"unrecognized error when creating merge request, please check log file">>),
                  <<create>>, NilErr)
        ELSE IF ~noteErr.nil
        THEN done(NilMsg, <<create, note>>, noteErr)
        ELSE done(MergeRequestCreated(mergeRequest), <<create, note>>, noteErr)

\* RunCreateMergeRequest with the note requested whatever CreateMergeRequest
\* answered
RunCreateMergeRequest_NoteAlways(cmd, iid, err, noteErr) ==
    LET title == shortenTitle(cmd.title)
        create == ApiCall("CreateMergeRequest", cmd.source, cmd.target, title, 0)
        note == ApiCall("CreateMergeRequestNote", "", "", <<>>, iid)
        mergeRequest == [Iid |-> iid, source |-> cmd.source,
                         target |-> cmd.target, title |-> title]
        done(msg, calls, nerr) ==
            [cmd EXCEPT !.pc = "returned", !.msg = msg, !.calls = calls,
                        !.err = err, !.noteErr = nerr]
    IN  IF ~err.nil /\ err.exists
        THEN done(failed(<<"merge request from branch ", cmd.source, " already exists">>),
                  <<create, note>>, NilErr)
        ELSE IF ~err.nil /\ err.net
        THEN done(failed(<<"merge request creation failed, please check your network connection">>),
                  <<create, note>>, NilErr)
        ELSE IF ~err.nil
        THEN done(failed(<<"unrecognized error when creating merge request, please check log file">>),
                  <<create, note>>, NilErr)
        ELSE IF ~noteErr.nil
        THEN done(NilMsg, <<create, note>>, noteErr)
        ELSE done(MergeRequestCreated(mergeRequest), <<create, note>>, noteErr)

\* the body of the command: with the client answering CreateMergeRequest by
\* (iid, err) and CreateMergeRequestNote by noteErr, the calls made and the
\* message returned
RunCreateMergeRequest(cmd, iid, err, noteErr) ==
    LET title == shortenTitle(cmd.title)
        create == ApiCall("CreateMergeRequest", cmd.source, cmd.target, title, 0)
        note == ApiCall("CreateMergeRequestNote", "", "", <<>>, iid)
        mergeRequest == [Iid |-> iid, source |-> cmd.source,
                         target |-> cmd.target, title |-> title]
        done(msg, calls, nerr) ==
            [cmd EXCEPT !.pc = "returned", !.msg = msg, !.calls = calls,
                        !.err = err, !.noteErr = nerr]
    IN  IF ~err.nil /\ err.exists
        THEN done(failed(<<"merge request from branch ", cmd.source, " already exists">>),
                  <<create>>, NilErr)
        ELSE IF ~err.nil /\ err.net
        THEN done(failed(<<"merge request creation failed, please check your network connection">>),
                  <<create>>, NilErr)
        ELSE IF ~err.nil
        THEN done(failed(<<"unrecognized error when creating merge request, please check log file">>),
                  <<create>>, NilErr)
        ELSE IF ~noteErr.nil
        THEN done(NilMsg, <<create, note>>, noteErr)
        ELSE done(MergeRequestCreated(mergeRequest), <<create, note>>, noteErr)

----------------------------------------------------------------------------
(* BranchTable: the controller.  m is the record of its fields. *)

M == [show |-> showMergeTargets, keys |-> keys, table |-> flexTable,
      list |-> branchesList, ctx |-> context]

\* time.Time.In(time.Local).Format(lasCommitFormat)
FormatDate(d) == <<"2006-01-02 15:04:05", d>>

\* table.NewRow(table.RowData{...}) of one branch
NewRow(branch) ==
    [branchName |-> branch.Name,
     lastCommit |-> FormatDate(branch.AuthoredDate),
     branchDetails |-> branch]

\* BuildRows with every row put in front of the earlier ones
RECURSIVE BuildRows_Prepend(_)
BuildRows_Prepend(branches) ==
    IF branches = <<>> THEN <<>>
    ELSE BuildRows_Prepend(Tail(branches)) \o <<NewRow(Head(branches))>>

\* case UserBranches: one row per branch, in the order received
RECURSIVE BuildRows(_)
BuildRows(branches) ==
    IF branches = <<>> THEN <<>>
    ELSE <<NewRow(Head(branches))>> \o BuildRows(Tail(branches))

\* BuildTargets with the default branch appended like any other
RECURSIVE BuildTargets_DefaultAppended(_, _)
BuildTargets_DefaultAppended(branches, targetBranches) ==
    IF branches = <<>> THEN targetBranches
    ELSE BuildTargets_DefaultAppended(Tail(branches),
                                      Append(targetBranches, Head(branches).Name))

\* case TargetBranches: the default branch is put first, the others appended
RECURSIVE BuildTargets(_, _)
BuildTargets(branches, targetBranches) ==
    IF branches = <<>> THEN targetBranches
    ELSE IF Head(branches).Default
        THEN BuildTargets(Tail(branches), <<Head(branches).Name>> \o targetBranches)
        ELSE BuildTargets(Tail(branches), Append(targetBranches, Head(branches).Name))

\* contentSize
contentSize(m) == m.ctx.WindowWidth - HorizontalFrameSize

\* int(float64(c) * 0.7): the float64 nearest to 0.7 is a little below 0.7, so
\* the product is 7c/10 rounded to the nearest float64, which lies below the
\* integer 7c/10 = n exactly when 4n exceeds 7 times the largest power of two
\* below n; the conversion to int then truncates towards zero.
RECURSIVE PowerOfTwoBelow(_, _)
PowerOfTwoBelow(n, p) == IF 2 * p < n THEN PowerOfTwoBelow(n, 2 * p) ELSE p

ScaleToInt(c) ==
    LET a == IF c < 0 THEN -c ELSE c
        n == (7 * a) \div 10
        exact == (7 * a) % 10 = 0
        below == exact /\ n > 1 /\ 4 * n > 7 * PowerOfTwoBelow(n, 1)
        r == IF below THEN n - 1 ELSE n
    IN  IF c < 0 THEN -r ELSE r

\* tableSize
tableSize(m) == IF m.show THEN ScaleToInt(contentSize(m)) ELSE contentSize(m)

\* recalculateComponents
recalculateComponents(m) ==
    LET tableWidth == tableSize(m)
        v == contentSize(m) - tableWidth
    IN  [m EXCEPT !.table = WithPageSize(WithTargetWidth(@, tableWidth), TablePageSize),
                  !.list = SetHeight(SetWidth(@, v), TableContentHeight)]

\* changeBranchSelectionVisibility with the widths recalculated before
\* showMergeTargets is assigned
changeBranchSelectionVisibility_RecalcFirst(m, visible) ==
    LET m1 == recalculateComponents(
                  [m EXCEPT !.keys.CloseTargetBranchesList = visible,
                            !.keys.SelectTargetBranch = visible,
                            !.keys.MergeAutomatically = ~visible])
        m2 == [m1 EXCEPT !.show = visible]
        m3 == [m2 EXCEPT !.list = ResetSelected(ResetFilter(@))]
    IN  [m3 EXCEPT !.keys.MergeFavourite = [i \in DOMAIN @ |-> ~visible]]

\* changeBranchSelectionVisibility without the call of ResetSelected
changeBranchSelectionVisibility_KeepSelection(m, visible) ==
    LET m1 == [m EXCEPT !.keys.CloseTargetBranchesList = visible,
                        !.keys.SelectTargetBranch = visible,
                        !.keys.MergeAutomatically = ~visible,
                        !.show = visible]
        m2 == recalculateComponents(m1)
        m3 == [m2 EXCEPT !.list = ResetFilter(@)]
    IN  [m3 EXCEPT !.keys.MergeFavourite = [i \in DOMAIN @ |-> ~visible]]

\* changeBranchSelectionVisibility without the loop over the favourites
changeBranchSelectionVisibility_FavouritesKept(m, visible) ==
    LET m1 == [m EXCEPT !.keys.CloseTargetBranchesList = visible,
                        !.keys.SelectTargetBranch = visible,
                        !.keys.MergeAutomatically = ~visible,
                        !.show = visible]
        m2 == recalculateComponents(m1)
    IN  [m2 EXCEPT !.list = ResetSelected(ResetFilter(@))]

\* changeBranchSelectionVisibility
changeBranchSelectionVisibility(m, visible) ==
    LET m1 == [m EXCEPT !.keys.CloseTargetBranchesList = visible,
                        !.keys.SelectTargetBranch = visible,
                        !.keys.MergeAutomatically = ~visible,
                        !.show = visible]
        m2 == recalculateComponents(m1)
        m3 == [m2 EXCEPT !.list = ResetSelected(ResetFilter(@))]
    IN  [m3 EXCEPT !.keys.MergeFavourite = [i \in DOMAIN @ |-> ~visible]]

\* the favourite loop of the default case: one command per matching binding
RECURSIVE FavouriteCmds(_, _, _)
FavouriteCmds(m, msg, i) ==
    IF i > Len(KeyMergeFavourite) THEN <<>>
    ELSE (IF Matches(msg, m.keys.MergeFavourite[i], KeyMergeFavourite[i]) /\ ~m.show
          THEN LET sourceBranch == HighlightedRow(m.table).branchDetails
               IN  <<createMergeRequest(sourceBranch.Name, FavouriteBranches[i],
                                        sourceBranch.Message)>>
          ELSE <<>>)
         \o FavouriteCmds(m, msg, i + 1)

FavouriteMatches(m, msg) ==
    \E i \in 1..Len(KeyMergeFavourite) :
        Matches(msg, m.keys.MergeFavourite[i], KeyMergeFavourite[i]) /\ ~m.show

Handled(m, cmds) == [m |-> m, cmds |-> cmds, panic |-> FALSE]
Panicked(m) == [m |-> m, cmds |-> <<>>, panic |-> TRUE]

\* UpdateKey with the confirmed target leaving the picker open
UpdateKey_ConfirmStaysPicking(m, msg) ==
    IF Matches(msg, m.keys.MergeAutomatically, KeyMergeAutomatically)
    THEN IF ~m.show
         THEN Handled(changeBranchSelectionVisibility(m, TRUE), <<>>)
         ELSE Handled(m, <<>>)
    ELSE IF Matches(msg, m.keys.CloseTargetBranchesList, KeyCloseTargetBranchesList)
    THEN IF m.show /\ m.list.filterState # "Filtering"
         THEN Handled(changeBranchSelectionVisibility(m, FALSE), <<>>)
         ELSE Handled(m, <<>>)
    ELSE IF Matches(msg, m.keys.SelectTargetBranch, KeySelectTargetBranch)
    THEN IF m.show /\ m.list.filterState # "Filtering"
         THEN IF ~HasHighlightedRow(m.table) \/ ~HasSelectedItem(m.list)
              THEN Panicked(m)
              ELSE LET sourceBranch == HighlightedRow(m.table).branchDetails
                       targetBranch == SelectedItem(m.list)
                   IN  Handled(m, <<createMergeRequest(sourceBranch.Name, targetBranch,
                                                       sourceBranch.Message)>>)
         ELSE Handled(m, <<>>)
    ELSE IF FavouriteMatches(m, msg)
    THEN IF ~HasHighlightedRow(m.table)
         THEN Panicked(m)
         ELSE Handled(m, FavouriteCmds(m, msg, 1))
    ELSE Handled(m, <<>>)

\* UpdateKey with "close picker" not looking at the picker's filter state
UpdateKey_CloseWhileFiltering(m, msg) ==
    IF Matches(msg, m.keys.MergeAutomatically, KeyMergeAutomatically)
    THEN IF ~m.show
         THEN Handled(changeBranchSelectionVisibility(m, TRUE), <<>>)
         ELSE Handled(m, <<>>)
    ELSE IF Matches(msg, m.keys.CloseTargetBranchesList, KeyCloseTargetBranchesList)
    THEN IF m.show
         THEN Handled(changeBranchSelectionVisibility(m, FALSE), <<>>)
         ELSE Handled(m, <<>>)
    ELSE IF Matches(msg, m.keys.SelectTargetBranch, KeySelectTargetBranch)
    THEN IF m.show /\ m.list.filterState # "Filtering"
         THEN IF ~HasHighlightedRow(m.table) \/ ~HasSelectedItem(m.list)
              THEN Panicked(m)
              ELSE LET sourceBranch == HighlightedRow(m.table).branchDetails
                       targetBranch == SelectedItem(m.list)
                   IN  Handled(changeBranchSelectionVisibility(m, FALSE),
                               <<createMergeRequest(sourceBranch.Name, targetBranch,
                                                    sourceBranch.Message)>>)
         ELSE Handled(m, <<>>)
    ELSE IF FavouriteMatches(m, msg)
    THEN IF ~HasHighlightedRow(m.table)
         THEN Panicked(m)
         ELSE Handled(m, FavouriteCmds(m, msg, 1))
    ELSE Handled(m, <<>>)

\* UpdateKey with the picker closed, and so reset, before the confirmed
\* target is read
UpdateKey_ResetBeforeRead(m, msg) ==
    IF Matches(msg, m.keys.MergeAutomatically, KeyMergeAutomatically)
    THEN IF ~m.show
         THEN Handled(changeBranchSelectionVisibility(m, TRUE), <<>>)
         ELSE Handled(m, <<>>)
    ELSE IF Matches(msg, m.keys.CloseTargetBranchesList, KeyCloseTargetBranchesList)
    THEN IF m.show /\ m.list.filterState # "Filtering"
         THEN Handled(changeBranchSelectionVisibility(m, FALSE), <<>>)
         ELSE Handled(m, <<>>)
    ELSE IF Matches(msg, m.keys.SelectTargetBranch, KeySelectTargetBranch)
    THEN IF m.show /\ m.list.filterState # "Filtering"
         THEN LET closed == changeBranchSelectionVisibility(m, FALSE)
              IN  IF ~HasHighlightedRow(closed.table) \/ ~HasSelectedItem(closed.list)
                  THEN Panicked(m)
                  ELSE LET sourceBranch == HighlightedRow(closed.table).branchDetails
                           targetBranch == SelectedItem(closed.list)
                       IN  Handled(closed,
                                   <<createMergeRequest(sourceBranch.Name, targetBranch,
                                                        sourceBranch.Message)>>)
         ELSE Handled(m, <<>>)
    ELSE IF FavouriteMatches(m, msg)
    THEN IF ~HasHighlightedRow(m.table)
         THEN Panicked(m)
         ELSE Handled(m, FavouriteCmds(m, msg, 1))
    ELSE Handled(m, <<>>)

\* case tea.KeyMsg of Update's switch
UpdateKey(m, msg) ==
    IF Matches(msg, m.keys.MergeAutomatically, KeyMergeAutomatically)
    THEN IF ~m.show
         THEN Handled(changeBranchSelectionVisibility(m, TRUE), <<>>)
         ELSE Handled(m, <<>>)
    ELSE IF Matches(msg, m.keys.CloseTargetBranchesList, KeyCloseTargetBranchesList)
    THEN IF m.show /\ m.list.filterState # "Filtering"
         THEN Handled(changeBranchSelectionVisibility(m, FALSE), <<>>)
         ELSE Handled(m, <<>>)
    ELSE IF Matches(msg, m.keys.SelectTargetBranch, KeySelectTargetBranch)
    THEN IF m.show /\ m.list.filterState # "Filtering"
         THEN IF ~HasHighlightedRow(m.table) \/ ~HasSelectedItem(m.list)
              THEN Panicked(m)
              ELSE LET sourceBranch == HighlightedRow(m.table).branchDetails
                       targetBranch == SelectedItem(m.list)
                   IN  Handled(changeBranchSelectionVisibility(m, FALSE),
                               <<createMergeRequest(sourceBranch.Name, targetBranch,
                                                    sourceBranch.Message)>>)
         ELSE Handled(m, <<>>)
    ELSE IF FavouriteMatches(m, msg)
    THEN IF ~HasHighlightedRow(m.table)
         THEN Panicked(m)
         ELSE Handled(m, FavouriteCmds(m, msg, 1))
    ELSE Handled(m, <<>>)

\* UpdateSwitch with a merge request outcome closing the picker
UpdateSwitch_OutcomeClosesPicker(m, msg) ==
    CASE msg.type = "UserBranches" ->
            Handled([m EXCEPT !.table = PageFirst(WithRows(@, BuildRows(msg.branches)))], <<>>)
      [] msg.type = "TargetBranches" ->
            Handled([m EXCEPT !.list = SetItems(@, BuildTargets(msg.branches, <<>>))], <<>>)
      [] msg.type = "UpdatedContextMessage" ->
            Handled(recalculateComponents(m), <<>>)
      [] msg.type = "KeyMsg" -> UpdateKey(m, msg)
      [] msg.type \in {"MergeRequestCreated", "MergeRequestFailed"} ->
            Handled(changeBranchSelectionVisibility(m, FALSE), <<>>)
      [] OTHER -> Handled(m, <<>>)

\* the switch of Update over the message type
UpdateSwitch(m, msg) ==
    CASE msg.type = "UserBranches" ->
            Handled([m EXCEPT !.table = PageFirst(WithRows(@, BuildRows(msg.branches)))], <<>>)
      [] msg.type = "TargetBranches" ->
            Handled([m EXCEPT !.list = SetItems(@, BuildTargets(msg.branches, <<>>))], <<>>)
      [] msg.type = "UpdatedContextMessage" ->
            Handled(recalculateComponents(m), <<>>)
      [] msg.type = "KeyMsg" -> UpdateKey(m, msg)
      [] OTHER -> Handled(m, <<>>)

\* Forward with the table updated in both modes
Forward_TableAlways(m, msg) ==
    IF ~m.show
    THEN [m |-> [m EXCEPT !.table = TableUpdate(@, msg)], cmds |-> <<>>, to |-> "table"]
    ELSE LET r == ListUpdate(m.list, msg)
         IN  [m |-> [m EXCEPT !.list = r.model, !.table = TableUpdate(@, msg)],
              cmds |-> r.cmds, to |-> "both"]

\* Forward choosing the widget by the mode Update was entered with
Forward_ByModeBefore(m, msg) ==
    IF ~showMergeTargets
    THEN [m |-> [m EXCEPT !.table = TableUpdate(@, msg)], cmds |-> <<>>, to |-> "table"]
    ELSE LET r == ListUpdate(m.list, msg)
         IN  [m |-> [m EXCEPT !.list = r.model], cmds |-> r.cmds, to |-> "list"]

\* the tail of Update: the message goes to the widget that is visible now
Forward(m, msg) ==
    IF ~m.show
    THEN [m |-> [m EXCEPT !.table = TableUpdate(@, msg)], cmds |-> <<>>, to |-> "table"]
    ELSE LET r == ListUpdate(m.list, msg)
         IN  [m |-> [m EXCEPT !.list = r.model], cmds |-> r.cmds, to |-> "list"]

\* model bound on the text typed into the filter input
Typeable == {KeyMergeAutomatically, KeyFilter} \cup Range(KeyMergeFavourite)
WithinTypingBound(m, msg) ==
    (msg.type = "KeyMsg" /\ m.show /\ m.list.filterState = "Filtering"
        /\ msg.key \in Typeable)
    => (msg.key \in FilterChars /\ Len(m.list.filterValue) < MaxFilterLen)

NoCmd == createMergeRequest("", "", <<>>)

\* a filterItems command returned by the picker: the matches it will report;
\* stale records that the picking session it was issued in has ended
FilterCmd(matches) == [pc |-> "issued", matches |-> matches, stale |-> FALSE]

RECURSIVE FilterCmdsOf(_)
FilterCmdsOf(cmds) ==
    IF cmds = <<>> THEN <<>>
    ELSE <<FilterCmd(Head(cmds))>> \o FilterCmdsOf(Tail(cmds))

SessionEnded(fcs, ended) ==
    [i \in DOMAIN fcs |-> [fcs[i] EXCEPT !.stale = @ \/ ended]]

\* what the last step was: the message handled, the widget it was passed on
\* to, the number of commands issued, the command whose result the message
\* was, and the mode and number of rows the step started from
Last(msg, to, issued, cmd) ==
    [msg |-> msg, to |-> to, issued |-> issued, cmd |-> cmd,
     was |-> [show |-> showMergeTargets, rows |-> Len(flexTable.rows)]]

\* BranchTable.Update(msg), called with the shared context ctx and the
\* commands reqs and fcs still in flight; cmd is the command msg came from
Update(msg, ctx, reqs, fcs, cmd, maxRequests) ==
    /\ ~crashed
    /\ WithinTypingBound(M, msg)
    /\ \E r \in {UpdateSwitch([M EXCEPT !.ctx = ctx], msg)} :
       \E f \in {Forward(r.m, msg)} :
          IF r.panic
             THEN /\ crashed' = TRUE
                  /\ last' = Last(msg, "none", 0, cmd)
                  /\ context' = ctx
                  /\ requests' = reqs
                  /\ filterCmds' = fcs
                  /\ UNCHANGED <<showMergeTargets, keys, flexTable, branchesList, loadCmds>>
             ELSE /\ Len(reqs) + Len(r.cmds) <= maxRequests
                  /\ Len(fcs) + Len(f.cmds) <= MaxFilterCmds
                  /\ showMergeTargets' = f.m.show
                  /\ keys' = f.m.keys
                  /\ flexTable' = f.m.table
                  /\ branchesList' = f.m.list
                  /\ context' = ctx
                  /\ requests' = reqs \o r.cmds
                  /\ filterCmds' = SessionEnded(fcs, showMergeTargets /\ ~f.m.show)
                                    \o FilterCmdsOf(f.cmds)
                  /\ last' = Last(msg, f.to, Len(r.cmds), cmd)
                  /\ UNCHANGED <<crashed, loadCmds>>

RemoveAt(s, i) == SubSeq(s, 1, i - 1) \o SubSeq(s, i + 1, Len(s))

----------------------------------------------------------------------------
(* The state after NewBranchTable and Init *)

InitWith(widths) ==
    /\ showMergeTargets = FALSE
    /\ keys \in BranchHelp
    /\ flexTable = NewFlexTable(TablePageSize)
    /\ branchesList = createList
    /\ context \in [WindowWidth : widths]
    /\ requests = <<>>
    /\ filterCmds = <<>>
    /\ loadCmds = 1
    /\ crashed = FALSE
    /\ last = Last(Msg("Init"), "none", 0, NoCmd)

----------------------------------------------------------------------------
(* Events *)

\* the listUsersBranches command returns and its UserBranches is delivered
UserBranchesLoaded(lists, maxRequests) ==
    \E l \in lists :
        Update(UserBranches(l), context, requests, filterCmds, NoCmd, maxRequests)

\* listUsersBranches: FetchBranchesWithPattern has one result, the branches;
\* when the fetch fails the client still answers with some list, and the
\* command wraps whatever it got in UserBranches
listUsersBranches(fetchFailed, branches) ==
    [pc |-> "fetched", failed |-> fetchFailed, msg |-> UserBranches(branches)]

\* a listUsersBranches command returns, after a fetch that succeeded or
\* failed, and its message is delivered
UserBranchesFetched(lists, maxRequests) ==
    \E fetchFailed \in BOOLEAN, l \in lists :
        \E cmd \in {listUsersBranches(fetchFailed, l)} :
            Update(cmd.msg, context, requests, filterCmds, cmd, maxRequests)

\* the supplier of target branches delivers TargetBranches
TargetBranchesAvailable(lists, maxRequests) ==
    \E l \in lists :
        Update(TargetBranches(l), context, requests, filterCmds, NoCmd, maxRequests)

\* the window is resized: the application stores the new width in the shared
\* context and hands UpdatedContextMessage to the tab
ContextUpdated(widths, maxRequests) ==
    \E w \in widths :
        Update(UpdatedContextMessage, [context EXCEPT !.WindowWidth = w],
               requests, filterCmds, NoCmd, maxRequests)

KeyPressed(among, maxRequests) ==
    \E k \in among :
        Update(KeyMsg(k), context, requests, filterCmds, NoCmd, maxRequests)

\* a filterItems command of the picker returns and its message is delivered
FilterMatchesDelivered(maxRequests) ==
    \E i \in 1..Len(filterCmds) :
        Update(FilterMatchesMsg(filterCmds[i].matches), context, requests,
               RemoveAt(filterCmds, i), [filterCmds[i] EXCEPT !.pc = "filtered"],
               maxRequests)

\* A createMergeRequest command completes: it makes its client calls, which
\* the client answers, and the message it returns is delivered to Update.
\* The run of a command reads and writes nothing of the controller, so it is
\* taken together with the delivery of its result.
CommandCompletes(maxRequests) ==
    \E i \in 1..Len(requests), iid \in Iids, err \in {NilErr} \cup Errors,
       noteErr \in NoteErrors :
        \E cmd \in {RunCreateMergeRequest(requests[i], iid, err, noteErr)} :
            /\ cmd.msg.type # "nil"
            /\ Update(cmd.msg, context, RemoveAt(requests, i), filterCmds, cmd,
                      maxRequests)

\* a command that returns nil completes: the event loop delivers nothing
CommandReturnsNil ==
    \E i \in 1..Len(requests), iid \in Iids, err \in {NilErr} \cup Errors,
       noteErr \in NoteErrors :
        \E cmd \in {RunCreateMergeRequest(requests[i], iid, err, noteErr)} :
            /\ ~crashed
            /\ cmd.msg.type = "nil"
            /\ requests' = RemoveAt(requests, i)
            /\ last' = Last(NilMsg, "none", 0, cmd)
            /\ UNCHANGED <<showMergeTargets, keys, flexTable, branchesList, context,
                           filterCmds, loadCmds, crashed>>

----------------------------------------------------------------------------
(* The workflow: every event, over a small repository *)

Init == InitWith(WindowWidths)

Next ==
    \/ UserBranchesLoaded(WorkflowBranchLists, MaxRequests)
    \/ TargetBranchesAvailable(WorkflowTargetLists, MaxRequests)
    \/ ContextUpdated(WindowWidths, MaxRequests)
    \/ KeyPressed(Keys, MaxRequests)
    \/ FilterMatchesDelivered(MaxRequests)
    \/ CommandCompletes(MaxRequests)
    \/ CommandReturnsNil

Spec == Init /\ [][Next]_vars

----------------------------------------------------------------------------
(* The data bindings: every branch list and every target list, in both modes *)

DataKeys == {KeyMergeAutomatically, KeyCloseTargetBranchesList, KeyDown}

NextData ==
    \/ UserBranchesLoaded(BranchLists, 0)
    \/ TargetBranchesAvailable(TargetLists, 0)
    \/ KeyPressed(DataKeys, 0)

SpecData == Init /\ [][NextData]_vars

----------------------------------------------------------------------------
(* The title policy: commit messages around the limit, merged to a favourite *)

TitleLens == {0} \cup (TitleCut..MaxTitleLen)

\* commit messages of n bytes: ASCII only, ASCII with a second line, two-byte
\* characters only, and one ASCII character followed by two-byte characters
Titles ==
    UNION {{Repeat(<<"a">>, n),
            Repeat(<<"a">>, n) \o <<"\n", "b">>,
            Repeat(<<Utf8Lead, Utf8Continuation>>, n \div 2),
            <<"a">> \o Repeat(<<Utf8Lead, Utf8Continuation>>, n \div 2)} : n \in TitleLens}

TitleBranchLists ==
    {<<[Name |-> "feature/x", Message |-> t, AuthoredDate |-> 1]>> : t \in Titles}

NextTitle ==
    \/ UserBranchesLoaded(TitleBranchLists, 1)
    \/ KeyPressed({KeyMergeFavourite[1]}, 1)
    \/ CommandCompletes(1)
    \/ CommandReturnsNil

SpecTitle == Init /\ [][NextTitle]_vars

----------------------------------------------------------------------------
(* Requests in flight: several commands pending while the user goes on *)

FlightKeys == {KeyMergeAutomatically, KeyCloseTargetBranchesList,
               KeySelectTargetBranch, KeyDown, KeyMergeFavourite[1]}

NextFlight ==
    \/ UserBranchesLoaded(WorkflowBranchLists, MaxInFlight)
    \/ TargetBranchesAvailable(WorkflowTargetLists, MaxInFlight)
    \/ ContextUpdated(WindowWidths, MaxInFlight)
    \/ KeyPressed(FlightKeys, MaxInFlight)
    \/ CommandCompletes(MaxInFlight)
    \/ CommandReturnsNil

SpecFlight == Init /\ [][NextFlight]_vars

----------------------------------------------------------------------------
(* The branch fetch: loads that succeed and loads that fail, in both modes *)

NextFetch ==
    \/ UserBranchesFetched(WorkflowBranchLists, 0)
    \/ TargetBranchesAvailable(WorkflowTargetLists, 0)
    \/ ContextUpdated(WindowWidths, 0)
    \/ KeyPressed(DataKeys, 0)

SpecFetch == Init /\ [][NextFetch]_vars

----------------------------------------------------------------------------
(* Properties *)

IsKey(msg, k) == msg.type = "KeyMsg" /\ msg.key = k

\* the last step delivered (or dropped) the result of a command
Completed == last.cmd.pc = "returned"

Rows == flexTable.rows
Items == branchesList.items
ContentWidth == context.WindowWidth - HorizontalFrameSize

\* C1: in PickingTarget with the picker not filtering, the "confirm target" key
\* pressed while the table has no highlighted row or the picker has no
\* selected item issues no command, does not crash, and leaves the mode.
C1_ConfirmGuardHolds ==
    [][(/\ IsKey(last'.msg, KeySelectTargetBranch)
        /\ showMergeTargets
        /\ branchesList.filterState # "Filtering"
        /\ (~HasHighlightedRow(flexTable) \/ ~HasSelectedItem(branchesList)))
       => (/\ ~crashed'
           /\ requests' = requests
           /\ showMergeTargets' = showMergeTargets)]_vars

\* C2: when CreateMergeRequest succeeds and CreateMergeRequestNote fails, the
\* event delivered is "merge request created", carrying the created record.
C2_NoteFailureStillCreated ==
    (Completed /\ last.cmd.err.nil /\ ~last.cmd.noteErr.nil)
    => (/\ last.msg.type = "MergeRequestCreated"
        /\ last.msg.mergeRequest.source = last.cmd.source
        /\ last.msg.mergeRequest.target = last.cmd.target)

\* C3: the delivery of a merge request outcome (created or failed) changes
\* neither the mode, nor the rows, nor the target items, nor the enabled
\* flags of the key bindings, whatever the mode it arrives in.
C3_OutcomeChangesNothing ==
    [][last'.msg.type \in {"MergeRequestCreated", "MergeRequestFailed"}
       => (/\ ~crashed'
           /\ showMergeTargets' = showMergeTargets
           /\ Rows' = Rows
           /\ Items' = Items
           /\ keys' = keys)]_vars

C3_Witness ==
    /\ last.msg.type = "MergeRequestFailed"
    /\ last.cmd.source = "feature/x"
    /\ last.cmd.err.exists
    /\ showMergeTargets
    /\ Rows # <<>>
    /\ Items # <<>>

\* C4 as stated: once a failure outcome (duplicate, connectivity,
\* unclassified, or note failure) has been delivered the mode is Browsing.
C4_FailureReturnsToBrowsing ==
    (Completed /\ (~last.cmd.err.nil \/ ~last.cmd.noteErr.nil)) => ~showMergeTargets

\* C4 as amended: a step that issues a createMergeRequest command ends in
\* Browsing, and the completion of a command that failed (duplicate,
\* connectivity, unclassified, or note failure) leaves the mode, the rows and
\* the target items as they were when it arrived.
C4_FailureLeavesModeAndViews ==
    [][/\ last'.issued > 0 => ~showMergeTargets'
       /\ (last'.cmd.pc = "returned" /\ (~last'.cmd.err.nil \/ ~last'.cmd.noteErr.nil))
          => (/\ showMergeTargets' = showMergeTargets
              /\ Rows' = Rows
              /\ Items' = Items)]_vars

C4_Witness ==
    /\ Completed
    /\ ~last.cmd.err.nil
    /\ ~last.cmd.err.exists
    /\ last.cmd.err.net
    /\ showMergeTargets
    /\ last.was.show
    /\ Rows # <<>>

\* C5: the mode starts as Browsing; "merge automatically" pressed in Browsing
\* moves to PickingTarget; "close picker" pressed in PickingTarget with the
\* picker not filtering moves to Browsing, and the table then has the full
\* content width.
C5_ModeTransitions ==
    /\ ~showMergeTargets
    /\ [][/\ (IsKey(last'.msg, KeyMergeAutomatically) /\ ~showMergeTargets)
             => (showMergeTargets' /\ ~crashed')
          /\ (/\ IsKey(last'.msg, KeyCloseTargetBranchesList)
              /\ showMergeTargets
              /\ branchesList.filterState # "Filtering")
             => (/\ ~showMergeTargets'
                 /\ ~crashed'
                 /\ flexTable'.targetWidth = ContentWidth')]_vars

C5_Witness ==
    /\ IsKey(last.msg, KeyCloseTargetBranchesList)
    /\ last.was.show
    /\ ~showMergeTargets
    /\ flexTable.targetWidth = ContentWidth
    /\ flexTable.targetWidth > 0

\* C6: after a branches-loaded event with list L2, whatever was loaded
\* before, there are exactly Len(L2) rows, row k is built from L2[k], and the
\* table is on its first page; in either mode.
C6_ReloadReplacesRows ==
    last.msg.type = "UserBranches"
    => LET L2 == last.msg.branches
       IN  /\ Len(Rows) = Len(L2)
           /\ \A k \in 1..Len(L2) :
                 /\ Rows[k].branchDetails = L2[k]
                 /\ Rows[k].branchName = L2[k].Name
           /\ flexTable.currentPage = 0

C6_Witness ==
    /\ last.msg.type = "UserBranches"
    /\ last.was.rows = 2
    /\ last.msg.branches = <<BranchY>>
    /\ Len(Rows) = 1
    /\ showMergeTargets

\* C7: after a target-branches event (at most one default branch) the items
\* are the input names with the default branch, if any, first and the others
\* in their input order; without a default, the input order.
C7_DefaultFirstOthersInOrder ==
    last.msg.type = "TargetBranches"
    => LET l == last.msg.branches
           names == [k \in 1..Len(l) |-> l[k].Name]
           defaults == {k \in 1..Len(l) : l[k].Default}
       IN  /\ Len(Items) = Len(l)
           /\ Range(Items) = Range(names)
           /\ defaults = {} => Items = names
           /\ \A d \in defaults :
                 /\ Items[1] = names[d]
                 /\ \A k \in 1..Len(l) :
                       /\ k < d => Items[k + 1] = names[k]
                       /\ k > d => Items[k] = names[k]

C7_Witness ==
    /\ last.msg.type = "TargetBranches"
    /\ Len(last.msg.branches) = 3
    /\ last.msg.branches[3].Default
    /\ Items[1] = last.msg.branches[3].Name
    /\ Items[2] = last.msg.branches[1].Name

\* the characters of a string: every byte but a UTF-8 continuation byte
\* starts one
CharCount(s) == Cardinality({i \in 1..Len(s) : s[i] # Utf8Continuation})

\* the part of t before its first line break
FirstLine(t) ==
    LET breaks == {i \in 1..Len(t) : t[i] = "\n"}
    IN  IF breaks = {} THEN t
        ELSE SubSeq(t, 1, (CHOOSE i \in breaks : \A j \in breaks : i <= j) - 1)

\* the first n characters of s
FirstChars(s, n) ==
    LET ends == {k \in 0..Len(s) :
                    /\ CharCount(SubSeq(s, 1, k)) <= n
                    /\ (k < Len(s) => s[k + 1] # Utf8Continuation)}
    IN  SubSeq(s, 1, CHOOSE k \in ends : \A j \in ends : j <= k)

\* C8: the title sent to CreateMergeRequest is the first line of the commit
\* message when that has at most 255 characters, and else its first 250
\* characters followed by a 3-character ellipsis marker.
C8_TitlePolicy ==
    Completed
    => LET line == FirstLine(last.cmd.title)
           sent == last.cmd.calls[1].title
       IN  IF CharCount(line) <= 255
           THEN sent = line
           ELSE sent = FirstChars(line, 250) \o <<".", ".", ".">>

\* C9: the "merge to favourite[i]" key issues a command if and only if the
\* mode is Browsing and a row is highlighted: then exactly one, from the
\* highlighted branch to favourites[i] with its last commit message as title,
\* and the mode stays Browsing; it never crashes.
C9_FavouriteGuard ==
    [][\A i \in 1..Len(KeyMergeFavourite) :
         IsKey(last'.msg, KeyMergeFavourite[i])
         => /\ ~crashed'
            /\ IF ~showMergeTargets /\ HasHighlightedRow(flexTable)
               THEN /\ requests' = Append(requests,
                           createMergeRequest(HighlightedRow(flexTable).branchName,
                                              FavouriteBranches[i],
                                              HighlightedRow(flexTable).branchDetails.Message))
                    /\ ~showMergeTargets'
               ELSE requests' = requests]_vars

\* C10: a failed CreateMergeRequest yields one failure notification whose
\* message is the duplicate message naming the source branch if the error is
\* "already exists", else the network message if it is a network error, else
\* the generic message.
C10_FailureClassified ==
    (Completed /\ ~last.cmd.err.nil)
    => /\ last.msg.type = "MergeRequestFailed"
       /\ last.msg = last.cmd.msg
       /\ last.cmd.err.exists
          => last.msg.text = <<"merge request from branch ", last.cmd.source, " already exists">>
       /\ (~last.cmd.err.exists /\ last.cmd.err.net)
          => last.msg.text = <<"merge request creation failed, please check your network connection">>
       /\ (~last.cmd.err.exists /\ ~last.cmd.err.net)
          => last.msg.text = <<"unrecognized error when creating merge request, please check log file">>

C10_Witness ==
    /\ Completed
    /\ last.cmd.err.exists
    /\ last.cmd.err.net
    /\ last.cmd.source = "feature/y"
    /\ last.msg.text[2] = "feature/y"

\* C11: in PickingTarget with the picker filtering, neither "close picker" nor
\* "confirm target" changes the mode or issues a command (nor anything else
\* of the controller): the key only reaches the picker.
C11_FilteringKeysGoToPicker ==
    [][(/\ (IsKey(last'.msg, KeyCloseTargetBranchesList)
            \/ IsKey(last'.msg, KeySelectTargetBranch))
        /\ showMergeTargets
        /\ branchesList.filterState = "Filtering")
       => (/\ ~crashed'
           /\ showMergeTargets'
           /\ requests' = requests
           /\ last'.issued = 0
           /\ keys' = keys
           /\ flexTable' = flexTable
           /\ last'.to = "list"
           /\ branchesList' = ListUpdate(branchesList, last'.msg).model)]_vars

\* "close picker" handled while filtering: the picker has left its filter
\* and the mode is still PickingTarget
C11_Witness ==
    /\ IsKey(last.msg, KeyCloseTargetBranchesList)
    /\ last.was.show
    /\ showMergeTargets
    /\ last.to = "list"
    /\ branchesList.filterState = "Unfiltered"
    /\ Items # <<>>

\* the step entered PickingTarget
EntersPicking == ~showMergeTargets /\ showMergeTargets'

\* the picker as it is when a picking session begins: not filtering, no
\* filter text, every item visible, the first one selected
FreshPicker(l) ==
    /\ l.filterState = "Unfiltered"
    /\ l.filterValue = <<>>
    /\ l.cursor = 0
    /\ VisibleItems(l) = l.items

\* the last step handed the picker the result of a filterItems command
FilterResultApplied == last.cmd.pc = "filtered" /\ last.to = "list"

IntegerPartOfSeventy(c) == IF c >= 0 THEN (7 * c) \div 10 ELSE -((7 * (-c)) \div 10)

\* C13: after a mode transition and after a context change, with C the
\* content width: in Browsing the table is C wide and the picker 0; in
\* PickingTarget the table has the integer part of 0.7 * C and the picker
\* the rest; both widths add up to C.
C13_PaneWidths ==
    (~crashed /\ (last.msg.type = "UpdatedContextMessage"
                  \/ last.was.show # showMergeTargets))
    => /\ flexTable.targetWidth + branchesList.width = ContentWidth
       /\ IF showMergeTargets
          THEN /\ flexTable.targetWidth = IntegerPartOfSeventy(ContentWidth)
               /\ branchesList.width = ContentWidth - flexTable.targetWidth
          ELSE /\ flexTable.targetWidth = ContentWidth
               /\ branchesList.width = 0

\* C14: a step that is not the completion of a request leaves every request
\* in flight as it is (it may add new ones); a completion removes exactly the
\* completing request, whose CreateMergeRequest call carried the source, the
\* target and the (shortened) title the request was issued with.
C14_RequestsRunToCompletion ==
    [][IF last'.cmd.pc = "returned"
       THEN \E i \in DOMAIN requests :
               /\ requests' = RemoveAt(requests, i)
               /\ last'.cmd.source = requests[i].source
               /\ last'.cmd.target = requests[i].target
               /\ last'.cmd.title = requests[i].title
               /\ last'.cmd.calls[1] =
                      ApiCall("CreateMergeRequest", requests[i].source,
                              requests[i].target, shortenTitle(requests[i].title), 0)
       ELSE /\ Len(requests') >= Len(requests)
            /\ SubSeq(requests', 1, Len(requests)) = requests]_vars

\* a request for feature/x completes after the branches were reloaded to an
\* empty list and the picker reopened, while another request is in flight
C14_Witness ==
    /\ Completed
    /\ last.cmd.source = "feature/x"
    /\ last.cmd.calls[1].source = "feature/x"
    /\ Rows = <<>>
    /\ showMergeTargets
    /\ Len(requests) = 1
    /\ requests[1].target # last.cmd.target

\* the last step delivered the result of a branch fetch that failed
FetchFailed == last.cmd.pc = "fetched" /\ last.cmd.failed

\* C15: a failed branch fetch reaches the controller as an event that is not
\* the event of a successful load, the rows shown before are still there,
\* and the only fetch ever issued is the one of the initial load.
C15_FetchFailureSurfaced ==
    /\ loadCmds = 1
    /\ FetchFailed
       => /\ last.msg.type # "UserBranches"
          /\ Len(Rows) = last.was.rows

\* the enabled flags are the ones of the mode
FlagsFollowMode(show, k) ==
    /\ k.CloseTargetBranchesList = show
    /\ k.SelectTargetBranch = show
    /\ k.MergeAutomatically = ~show
    /\ \A i \in DOMAIN k.MergeFavourite : k.MergeFavourite[i] = ~show

\* C16: every mode transition leaves "close picker" and "confirm target"
\* enabled exactly in PickingTarget and "merge automatically" and the
\* favourites exactly in Browsing, and no later step breaks that.
C16_FlagsAreFunctionOfMode ==
    [][/\ showMergeTargets' # showMergeTargets
          => FlagsFollowMode(showMergeTargets', keys')
       /\ FlagsFollowMode(showMergeTargets, keys)
          => FlagsFollowMode(showMergeTargets', keys')]_vars

\* back in Browsing after a confirmed target, the flags are those of Browsing
C16_Witness ==
    /\ IsKey(last.msg, KeySelectTargetBranch)
    /\ last.was.show
    /\ ~showMergeTargets
    /\ last.issued = 1
    /\ FlagsFollowMode(FALSE, keys)
    /\ keys.MergeFavourite[2]

\* C17: a command that has run called CreateMergeRequest first; when that
\* succeeded it called CreateMergeRequestNote once, after it, with the Iid of
\* the merge request created; when it failed it made no further call.
C17_NoteOnlyAfterCreation ==
    Completed
    => LET calls == last.cmd.calls
       IN  /\ calls # <<>>
           /\ calls[1].op = "CreateMergeRequest"
           /\ IF last.cmd.err.nil
              THEN /\ Len(calls) = 2
                   /\ calls[2].op = "CreateMergeRequestNote"
                   /\ calls[2].iid \in Iids
                   /\ last.msg.type = "MergeRequestCreated"
                      => calls[2].iid = last.msg.mergeRequest.Iid
              ELSE Len(calls) = 1

\* a request for the second picker item was created and its note requested
C17_Witness ==
    /\ Completed
    /\ last.msg.type = "MergeRequestCreated"
    /\ last.cmd.target = "dev"
    /\ Len(last.cmd.calls) = 2
    /\ last.cmd.calls[2].iid = last.msg.mergeRequest.Iid
    /\ last.cmd.calls[2].iid # 0

\* the message is a key that one of the enabled workflow bindings listens to
WorkflowKey(msg) ==
    \/ Matches(msg, keys.MergeAutomatically, KeyMergeAutomatically)
    \/ Matches(msg, keys.CloseTargetBranchesList, KeyCloseTargetBranchesList)
    \/ Matches(msg, keys.SelectTargetBranch, KeySelectTargetBranch)
    \/ \E i \in DOMAIN KeyMergeFavourite :
          Matches(msg, keys.MergeFavourite[i], KeyMergeFavourite[i])

C19_ConfirmCarriesTheSelection ==
    [][(/\ IsKey(last'.msg, KeySelectTargetBranch)
        /\ showMergeTargets
        /\ branchesList.filterState # "Filtering"
        /\ HasHighlightedRow(flexTable)
        /\ HasSelectedItem(branchesList))
       => (/\ ~crashed'
           /\ last'.issued = 1
           /\ requests' = Append(requests,
                  createMergeRequest(HighlightedRow(flexTable).branchName,
                                     SelectedItem(branchesList),
                                     HighlightedRow(flexTable).branchDetails.Message))
           /\ ~showMergeTargets'
           /\ branchesList'.cursor = 0)]_vars

\* the second item of the picker was confirmed for the second row
C19_Witness ==
    /\ IsKey(last.msg, KeySelectTargetBranch)
    /\ last.was.show
    /\ ~showMergeTargets
    /\ last.issued = 1
    /\ Items = <<"main", "dev">>
    /\ requests = <<createMergeRequest("feature/y", "dev", MsgY)>>
    /\ branchesList.cursor = 0

\* C20: the "merge automatically" key that opens the picker is passed to the
\* picker, after its reset, and not to the table; the "close picker" and
\* "confirm target" keys that return to Browsing are passed to the table
\* and not to the picker.
C20_ModeKeyReachesTheNewWidget ==
    [][/\ (IsKey(last'.msg, KeyMergeAutomatically) /\ EntersPicking)
          => LET opened == changeBranchSelectionVisibility(M, TRUE)
             IN  /\ last'.to = "list"
                 /\ branchesList' = ListUpdate(opened.list, last'.msg).model
                 /\ flexTable' = opened.table
       /\ (/\ IsKey(last'.msg, KeyCloseTargetBranchesList)
              \/ IsKey(last'.msg, KeySelectTargetBranch)
           /\ showMergeTargets
           /\ ~showMergeTargets')
          => LET closed == changeBranchSelectionVisibility(M, FALSE)
             IN  /\ last'.to = "table"
                 /\ flexTable' = TableUpdate(closed.table, last'.msg)
                 /\ branchesList' = closed.list]_vars

\* "close picker" closed a picker holding items and was passed to the table,
\* which holds rows
C20_Witness ==
    /\ IsKey(last.msg, KeyCloseTargetBranchesList)
    /\ last.was.show
    /\ ~showMergeTargets
    /\ last.to = "table"
    /\ Len(Rows) = 2
    /\ Len(Items) = 2
    /\ flexTable.rowCursorIndex = 1

====
